---- MODULE Spec2Model ----
(***************************************************************************)
(* Fall-alarm tester (v1.py): a playback clock thread (VideoThread), a     *)
(* live feed listener (MmwaveMqttThread) and the control thread            *)
(* (FallAlarmTester, the Qt event loop).  Signals emitted by the worker    *)
(* threads are queued to the control thread and handled there one at a     *)
(* time, in the order they were posted.                                    *)
(***************************************************************************)
EXTENDS Integers, Sequences, FiniteSets, TLC

\* ------------------------------------------------------------------ bounds
\* arms (start_video / select_video) per behaviour; also the number of clocks
MaxArms == 2
\* frames the frame source delivers before end of stream
MaxFrames == 2
\* queued, not yet delivered signals on the control thread
MaxQueue == 2
\* live feed messages per behaviour
MaxMsgs == 1
\* largest value the operator puts in the seconds spin box before arming
MaxFallAt == 1
\* live feed messages per behaviour in the models of the feed alone
MaxMalformedMsgs == 2
MaxListeners == 3

\* Scenario B: the fallback threshold the operator sets, the elapsed time at
\* which the live-feed message arrives, and the frames of the video
ScenarioBThreshold == 30
ScenarioBMessageAt == 5
ScenarioBFrames == 32

\* frame rate of the frame source (cap.get(CAP_PROP_FPS)): one frame a second
Fps == 1
\* QSpinBox maximum of min_spin and sec_spin
SpinMax == 59
\* Scenario A: the fallback threshold (the seconds spin box's default value)
ScenarioThreshold == 10
\* Scenario A: frames of the video, enough to pass the threshold
ScenarioFrames == 12

RunIds == 1..MaxArms
ListenerIds == 1..MaxListeners

\* ----------------------------------------------------------------- payloads
\* A payload value: absent key, int, bool, str (a sequence of characters) or
\* another JSON value.
Absent == [t |-> "absent"]
IntV(n) == [t |-> "int", v |-> n]
BoolV(b) == [t |-> "bool", v |-> b]
StrV(s) == [t |-> "str", v |-> s]

Upper == <<"A","B","C","D","E","F","G","H","I","J","K","L","M",
           "N","O","P","Q","R","S","T","U","V","W","X","Y","Z">>
Lower == <<"a","b","c","d","e","f","g","h","i","j","k","l","m",
           "n","o","p","q","r","s","t","u","v","w","x","y","z">>

\* str.lower(), character by character
lower_char(c) ==
    IF \E i \in 1..26 : Upper[i] = c
    THEN Lower[CHOOSE i \in 1..26 : Upper[i] = c]
    ELSE c

lower(s) == [i \in 1..Len(s) |-> lower_char(s[i])]

\* `sub in s` for strings
contains(s, sub) ==
    \E i \in 0..(Len(s) - Len(sub)) :
        \A j \in 1..Len(sub) : s[i + j] = sub[j]

FALL == <<"f","a","l","l">>

\* payload.get("fall_detected") in (1, True, "1", "true", "TRUE")
fall_detected_truthy(v) ==
    \/ v.t = "int" /\ v.v = 1
    \/ v.t = "bool" /\ v.v = TRUE
    \/ v.t = "str" /\ v.v \in {<<"1">>, <<"t","r","u","e">>, <<"T","R","U","E">>}

str_contains_fall(v) == v.t = "str" /\ contains(lower(v.v), FALL)

\* (variant: an explicit negative "fall_detected" settles the verdict)
payload_is_fall_negative_first(payload) ==
    IF payload.fall_detected \in {IntV(0), BoolV(FALSE)}
    THEN FALSE
    ELSE \/ fall_detected_truthy(payload.fall_detected)
         \/ \E k \in {"event", "type", "status", "alarm"} : str_contains_fall(payload[k])
         \/ payload.classification.t = "str" /\ lower(payload.classification.v) = FALL

\* (variant: the text fields are compared without lower())
payload_is_fall_case_sensitive(payload) ==
    \/ fall_detected_truthy(payload.fall_detected)
    \/ \E k \in {"event", "type", "status", "alarm"} :
          payload[k].t = "str" /\ contains(payload[k].v, FALL)
    \/ payload.classification.t = "str" /\ payload.classification.v = FALL

payload_is_fall(payload) ==
    \/ fall_detected_truthy(payload.fall_detected)
    \/ \E k \in {"event", "type", "status", "alarm"} : str_contains_fall(payload[k])
    \/ payload.classification.t = "str" /\ lower(payload.classification.v) = FALL

EmptyPayload ==
    [fall_detected |-> Absent, event |-> Absent, type |-> Absent,
     status |-> Absent, alarm |-> Absent, classification |-> Absent, raw |-> Absent]

PayloadFall == [EmptyPayload EXCEPT !.fall_detected = IntV(1)]
PayloadNormal == [EmptyPayload EXCEPT !.event = StrV(<<"n","o","r","m","a","l">>)]

\* the messages the feed delivers in the session model
MsgPayloads == {PayloadFall, PayloadNormal}

PayloadStatusFall == [EmptyPayload EXCEPT !.status = StrV(<<"P","E","R","S","O","N","_","F","A","L","L","_","E","V","E","N","T">>)]
PayloadClassificationFall == [EmptyPayload EXCEPT !.classification = StrV(<<"F","a","l","l">>)]

\* values of "fall_detected" in the classification model
FallDetectedValues ==
    {Absent, IntV(0), IntV(1), BoolV(TRUE), BoolV(FALSE),
     StrV(<<"1">>), StrV(<<"t","r","u","e">>), StrV(<<"T","R","U","E">>), StrV(<<"T","r","u","e">>), StrV(<<"0">>)}

\* values of the text fields in the classification model
TextValues ==
    {IntV(1), BoolV(TRUE),
     StrV(<<"f","a","l","l">>), StrV(<<"F","a","l","l">>), StrV(<<"F","A","L","L">>), StrV(<<"P","E","R","S","O","N","_","F","A","L","L","_","E","V","E","N","T">>), StrV(<<"n","o","r","m","a","l">>), StrV(<<"f","a","l">>), StrV(<<"f","a","l","l","i","n","g">>),
     StrV(<<"n","o","_","f","a","l","l">>)}

TextKeys == {"event", "type", "status", "alarm", "classification"}

\* the payloads of the classification model: any "fall_detected" value, and at
\* most one text field
ClassifyPayloads ==
    {[EmptyPayload EXCEPT !.fall_detected = fd] : fd \in FallDetectedValues}
    \cup {[EmptyPayload EXCEPT !.fall_detected = fd, ![k] = v] :
              fd \in FallDetectedValues, k \in TextKeys, v \in TextValues}


\* ------------------------------------------------------------ message texts
\* The text of an MQTT message (msg.payload decoded), token by token: a brace,
\* colon, comma or blank, a JSON key, a JSON literal (a number, true/false or
\* a string), or a run of other characters.
Tok(k, key, v) == [k |-> k, key |-> key, v |-> v]
LBrace == Tok("{", "", Absent)
RBrace == Tok("}", "", Absent)
Colon == Tok(":", "", Absent)
Comma == Tok(",", "", Absent)
Blank == Tok(" ", "", Absent)
Key(name) == Tok("key", name, Absent)
Lit(v) == Tok("lit", "", v)
Chars(s) == Tok("chars", "", StrV(s))

\* str.strip()
RECURSIVE lstrip(_)
lstrip(s) == IF s # <<>> /\ Head(s) = Blank THEN lstrip(Tail(s)) ELSE s

RECURSIVE rstrip(_)
rstrip(s) ==
    IF s # <<>> /\ s[Len(s)] = Blank THEN rstrip(SubSeq(s, 1, Len(s) - 1)) ELSE s

strip(s) == rstrip(lstrip(s))

\* raw.strip().startswith("{")
startswith_brace(raw) == strip(raw) # <<>> /\ Head(strip(raw)) = LBrace

\* the tokens from position i on
From(s, i) == [j \in 1..(Len(s) - i + 1) |-> s[j + i - 1]]

\* the members of a JSON object: key : literal, separated by commas
RECURSIVE members_ok(_)
members_ok(s) ==
    /\ Len(s) >= 3
    /\ s[1].k = "key"
    /\ s[2] = Colon
    /\ s[3].k = "lit"
    /\ \/ Len(s) = 3
       \/ Len(s) > 4 /\ s[4] = Comma /\ members_ok(From(s, 5))

\* the dict of the members; a key given twice keeps its last value
RECURSIVE members(_, _)
members(s, d) ==
    IF Len(s) < 3 THEN d
    ELSE members(IF Len(s) > 4 THEN From(s, 5) ELSE <<>>,
                 IF s[1].key \in DOMAIN d THEN [d EXCEPT ![s[1].key] = s[3].v] ELSE d)

\* json.loads(raw) for a text that holds a JSON object; ok = FALSE: it raises
json_loads(raw) ==
    LET s == strip(raw)
        inner == SubSeq(s, 2, Len(s) - 1)
    IN  IF /\ Len(s) >= 2
           /\ Head(s) = LBrace
           /\ s[Len(s)] = RBrace
           /\ (inner = <<>> \/ members_ok(inner))
        THEN [ok |-> TRUE, data |-> members(inner, EmptyPayload)]
        ELSE [ok |-> FALSE, data |-> EmptyPayload]

\* {"raw": raw}
WrapRaw(raw) == [EmptyPayload EXCEPT !.raw = StrV(raw)]

PayloadKeys == <<"fall_detected", "event", "type", "status", "alarm", "classification">>

\* the text of the JSON object the sensor sends for payload p
RECURSIVE dumps_from(_, _)
dumps_from(p, i) ==
    IF i > Len(PayloadKeys) THEN <<>>
    ELSE LET k == PayloadKeys[i]
             rest == dumps_from(p, i + 1)
         IN  IF p[k].t = "absent" THEN rest
             ELSE <<Key(k), Colon, Lit(p[k])>>
                     \o (IF rest = <<>> THEN <<>> ELSE <<Comma>> \o rest)

dumps(p) == <<LBrace>> \o dumps_from(p, 1) \o <<RBrace>>

\* the texts the feed delivers in the session model
MsgTexts == {dumps(p) : p \in MsgPayloads}

\* the texts of the classification model
ClassifyTexts == {dumps(p) : p \in ClassifyPayloads}

\* texts that are not a JSON object: plain text, a JSON value that is not an
\* object, and texts that start with a brace and do not parse
PlainTexts ==
    {<<Chars(<<"f","a","l","l">>)>>,
     <<Blank, Chars(<<"F","A","L","L">>), Blank>>,
     <<Lit(IntV(1))>>,
     <<Key("fall_detected"), Colon, Lit(IntV(1))>>}

BrokenTexts ==
    {<<LBrace, Chars(<<"f","a","l","l">>)>>,
     <<LBrace, Key("fall_detected"), Colon, Lit(IntV(1))>>,
     <<Blank, LBrace, Key("event"), Colon, Lit(StrV(<<"f","a","l","l">>)), RBrace,
       Chars(<<"x">>)>>,
     <<LBrace, Key("status"), Lit(StrV(<<"f","a","l","l">>)), RBrace>>}

MalformedTexts == PlainTexts \cup BrokenTexts

\* -------------------------------------------------------------------- state
VARIABLES
    \* FallAlarmTester (control thread)
    video_path,            \* a video is selected (self.video_path is not None)
    video_thread,          \* id of the clock self.video_thread refers to, 0 = None
    has_monitoring_armed,  \* the attribute self.monitoring_armed exists
    monitoring_armed,
    last_frame,
    fall_triggered,
    current_time_sec,      \* in frames: the float it holds is current_time_sec / Fps
    min_spin, sec_spin,
    start_btn, pause_btn, stop_btn,   \* isEnabled() of the three buttons
    mmwave_checkbox,
    ctl_pc,                \* "idle" (in the event loop), "stop_wait" (inside stop_video),
                           \* "close_wait" (inside closeEvent) or "closed"
    \* worker threads and the control thread's event queue
    threads,               \* the VideoThread objects, by id
    queue,                 \* signals posted to the control thread, oldest first
    video_frames,          \* frames the selected video holds
    sink,                  \* rows inserted into the events table
    \* history
    narms,                 \* arms so far
    session,               \* id of the session armed now, 0 = none
    signals,               \* sources handed to trigger_fall in this session, by first call
    accepted,              \* the first signal of this session that found the latch clear
    stopped,               \* id of the session stop_video ended before any trigger
    msgs_sent,             \* live feed messages so far
    classified,            \* live feed messages payload_is_fall was called on
    unhandled,             \* a slot raised an exception nothing catches
    mmwave_status,         \* what the feed status label shows
    mmwave_thread,         \* id of the listener self.mmwave_thread refers to, 0 = None
    listeners,             \* the MmwaveMqttThread objects, by id
    \* videomqtt.py (the broker variant of the control thread)
    event_emitted,         \* self.event_emitted
    published,             \* messages the broker has taken, oldest first
    last_publish           \* the last call of publish_alerts: what it found and returned

vars == <<video_path, video_thread, has_monitoring_armed, monitoring_armed, last_frame,
          fall_triggered, current_time_sec, min_spin, sec_spin, start_btn, pause_btn,
          stop_btn, mmwave_checkbox, ctl_pc, threads, queue, video_frames, sink,
          narms, session, signals, accepted, stopped, msgs_sent, classified, unhandled,
          event_emitted, published, last_publish, mmwave_status, mmwave_thread,
          listeners>>

history == <<narms, session, signals, accepted, stopped>>

\* the state only the broker variant (videomqtt.py) uses
broker == <<event_emitted, published, last_publish>>

feed == <<mmwave_thread, listeners>>

NoListener == [pc |-> "none", stopf |-> FALSE]

\* MmwaveMqttThread.__init__ with the start() that follows it: the listener is
\* in run(), its client's callbacks connected to the control thread's slots
MmwaveMqttThread == [pc |-> "running", stopf |-> FALSE]

\* QThread.isRunning() of a listener
listener_isRunning(l) == listeners[l].pc = "running"

\* a listener is in run(): its client can call on_message
ListenerConnected == \E l \in ListenerIds : listener_isRunning(l)

\* __init__'s call of start_mmwave_if_enabled: the checkbox shows the saved setting
InitListener ==
    /\ mmwave_thread = IF mmwave_checkbox THEN 1 ELSE 0
    /\ listeners = [l \in ListenerIds |->
                        IF l = 1 /\ mmwave_checkbox THEN MmwaveMqttThread ELSE NoListener]

NoThread ==
    [pc |-> "none", stopf |-> FALSE, paused |-> FALSE, start_frame |-> 0,
     current_frame |-> 0, fall_triggered |-> FALSE, fall_time_sec |-> 0,
     has_path |-> FALSE,
     \* history of the run: its session, the frames at which it emitted the
     \* threshold signal, stop() woke it, what opening the frame source gave
     session |-> 0, fired |-> <<>>, woke |-> FALSE, cap |-> "none"]

\* VideoThread.__init__ (QThread.start() follows at once in both callers)
VideoThread(path, fall_time, start_frame, fall_already_triggered, sid) ==
    [NoThread EXCEPT !.pc = "start", !.has_path = path, !.fall_time_sec = fall_time,
                     !.start_frame = start_frame, !.current_frame = start_frame,
                     !.fall_triggered = fall_already_triggered, !.session = sid]

NoAccept == [src |-> "none", sec |-> 0, ok |-> FALSE]

Event(kind, run, val, payload) == [kind |-> kind, run |-> run, val |-> val, payload |-> payload]

\* QThread.isRunning()
isRunning(r) == threads[r].pc \notin {"none", "done"}

\* (variant: the seconds box is left out)
total_sec_minutes_only == min_spin * 60

\* min_spin.value() * 60 + sec_spin.value()
total_sec == min_spin * 60 + sec_spin

\* QSpinBox.setValue clamps to [minimum, maximum]
setValue(n) == IF n < 0 THEN 0 ELSE IF n > SpinMax THEN SpinMax ELSE n

\* (variant: strict comparison)
threshold_reached_strict(frame, fall_time) == frame > fall_time * Fps

\* current_frame / fps >= fall_time_sec
threshold_reached(frame, fall_time) == frame >= fall_time * Fps

\* int(self.current_time_sec)
int_sec(t) == t \div Fps

\* the session state the arbiter's gates read
SessionState ==
    IF fall_triggered THEN "Triggered"
    ELSE IF has_monitoring_armed /\ monitoring_armed THEN "Armed"
    ELSE "Idle"

NoPublish == [called |-> FALSE, status |-> "", connected |-> FALSE, ok |-> FALSE]

InitCommon ==
    /\ video_thread = 0
    /\ has_monitoring_armed = FALSE
    /\ monitoring_armed = FALSE
    /\ last_frame = 0
    /\ fall_triggered = FALSE
    /\ current_time_sec = 0
    /\ min_spin = 0
    /\ start_btn = TRUE
    /\ pause_btn = FALSE
    /\ stop_btn = FALSE
    /\ ctl_pc = "idle"
    /\ threads = [r \in RunIds |-> NoThread]
    /\ queue = <<>>
    /\ sink = <<>>
    /\ narms = 0
    /\ session = 0
    /\ signals = <<>>
    /\ accepted = NoAccept
    /\ stopped = 0
    /\ msgs_sent = 0
    /\ classified = 0
    /\ unhandled = FALSE
    /\ event_emitted = FALSE
    /\ published = <<>>
    /\ last_publish = NoPublish
    /\ mmwave_status = "connecting"

\* After __init__; the operator has put a fallback time in the seconds box.
Init ==
    /\ InitCommon
    /\ video_path = FALSE
    /\ mmwave_checkbox \in BOOLEAN
    /\ InitListener
    /\ sec_spin \in 0..MaxFallAt
    /\ video_frames = MaxFrames


\* --------------------------------------------------- control thread: commands
\* history kept at every arm: a new session begins
NewSession ==
    /\ narms' = narms + 1
    /\ session' = narms + 1
    /\ signals' = <<>>
    /\ accepted' = NoAccept
    /\ stopped' = 0

\* history kept when stop_video or on_video_finished ends the session
EndSession(clean) ==
    /\ session' = 0
    /\ signals' = <<>>
    /\ accepted' = NoAccept
    /\ stopped' = IF clean THEN session ELSE 0
    /\ UNCHANGED narms

\* (variant: the live-only arm starts a clock with no frame source)
live_arm_with_clock ==
    /\ has_monitoring_armed' = TRUE
    /\ monitoring_armed' = TRUE
    /\ fall_triggered' = FALSE
    /\ current_time_sec' = 0
    /\ start_btn' = FALSE
    /\ pause_btn' = FALSE
    /\ stop_btn' = TRUE
    /\ threads' = [threads EXCEPT ![narms + 1] =
                       VideoThread(FALSE, total_sec, 0, FALSE, narms + 1)]
    /\ video_thread' = narms + 1
    /\ UNCHANGED last_frame

\* start_video / select_video with no video and the live feed in use
live_arm ==
    /\ has_monitoring_armed' = TRUE
    /\ monitoring_armed' = TRUE
    /\ fall_triggered' = FALSE
    /\ current_time_sec' = 0
    /\ start_btn' = FALSE
    /\ pause_btn' = FALSE
    /\ stop_btn' = TRUE
    /\ UNCHANGED <<last_frame, video_thread, threads>>

\* start_video / select_video: arm, then create and start the clock
video_arm(path) ==
    /\ has_monitoring_armed' = TRUE
    /\ monitoring_armed' = TRUE
    /\ fall_triggered' = FALSE
    /\ last_frame' = 0
    /\ start_btn' = FALSE
    /\ pause_btn' = TRUE
    /\ stop_btn' = TRUE
    /\ threads' = [threads EXCEPT ![narms + 1] =
                       VideoThread(path, total_sec, last_frame', fall_triggered', narms + 1)]
    /\ video_thread' = narms + 1
    /\ UNCHANGED current_time_sec

\* "Select Video" button (never disabled). chosen: the dialog returned a path.
select_video(chosen) ==
    /\ ctl_pc = "idle"
    /\ narms < MaxArms
    /\ video_path' = (video_path \/ chosen)
    /\ IF ~video_path' /\ mmwave_checkbox
       THEN live_arm
       ELSE video_arm(video_path')
    /\ NewSession
    /\ UNCHANGED <<min_spin, sec_spin, mmwave_checkbox, ctl_pc, queue, video_frames,
                   sink, msgs_sent, classified, unhandled, broker, mmwave_status, feed>>

\* START button
start_video ==
    /\ ctl_pc = "idle"
    /\ start_btn
    /\ IF ~video_path /\ ~mmwave_checkbox
       THEN \* "Select a video first!"
            UNCHANGED <<has_monitoring_armed, monitoring_armed, fall_triggered,
                        current_time_sec, start_btn, pause_btn, stop_btn, last_frame,
                        video_thread, threads, history>>
       ELSE /\ narms < MaxArms
            /\ IF ~video_path THEN live_arm ELSE video_arm(video_path)
            /\ NewSession
    /\ UNCHANGED <<video_path, min_spin, sec_spin, mmwave_checkbox, ctl_pc, queue,
                   video_frames, sink, msgs_sent, classified, unhandled, broker, mmwave_status, feed>>

\* QWaitCondition.wakeAll on thread r's pause condition: parked loops re-check the gate
wakeAll(t) == IF t.pc = "parked" THEN [t EXCEPT !.pc = "gate"] ELSE t

\* (variant: resuming rewinds the position to the start frame)
toggle_pause_rewinds(t) ==
    IF t.paused
    THEN wakeAll([t EXCEPT !.paused = FALSE, !.current_frame = t.start_frame])
    ELSE [t EXCEPT !.paused = TRUE]

\* VideoThread.toggle_pause
toggle_pause(t) ==
    IF t.paused
    THEN wakeAll([t EXCEPT !.paused = FALSE])
    ELSE [t EXCEPT !.paused = TRUE]

\* (variant: the parked loop is not woken)
stop_without_wake(t) == [t EXCEPT !.stopf = TRUE, !.paused = FALSE]

\* VideoThread.stop; woke: this call found the loop parked, and the loop has
\* not yet been back at its pause check
stop(t) ==
    wakeAll([t EXCEPT !.stopf = TRUE, !.paused = FALSE, !.woke = (t.pc = "parked")])

\* (variant: the clock's latch is left alone)
mark_fall_triggered_forgets(t) == t

\* VideoThread.mark_fall_triggered
mark_fall_triggered(t) == [t EXCEPT !.fall_triggered = TRUE]

\* (variant: pausing disarms the session)
pause_resume_video_disarms ==
    /\ ctl_pc = "idle"
    /\ IF video_thread = 0 \/ ~isRunning(video_thread)
       THEN UNCHANGED <<threads, monitoring_armed>>
       ELSE /\ threads' = [threads EXCEPT ![video_thread] = toggle_pause(@)]
            /\ monitoring_armed' = threads[video_thread].paused
    /\ UNCHANGED <<video_path, video_thread, has_monitoring_armed,
                   last_frame, fall_triggered, current_time_sec, min_spin, sec_spin,
                   start_btn, pause_btn, stop_btn, mmwave_checkbox, ctl_pc, queue,
                   video_frames, sink, history, msgs_sent, classified, unhandled, broker,
                   mmwave_status, feed>>

\* PAUSE button, or a click on the video
pause_resume_video ==
    /\ ctl_pc = "idle"
    /\ IF video_thread = 0 \/ ~isRunning(video_thread)
       THEN UNCHANGED threads
       ELSE threads' = [threads EXCEPT ![video_thread] = toggle_pause(@)]
    /\ UNCHANGED <<video_path, video_thread, has_monitoring_armed, monitoring_armed,
                   last_frame, fall_triggered, current_time_sec, min_spin, sec_spin,
                   start_btn, pause_btn, stop_btn, mmwave_checkbox, ctl_pc, queue,
                   video_frames, sink, history, msgs_sent, classified, unhandled, broker, mmwave_status, feed>>

\* stop_video from "# STOP = reset" to its end
stop_reset ==
    /\ last_frame' = 0
    /\ fall_triggered' = FALSE
    /\ start_btn' = TRUE
    /\ pause_btn' = FALSE
    /\ stop_btn' = FALSE
    /\ current_time_sec' = 0
    /\ has_monitoring_armed' = TRUE
    /\ monitoring_armed' = FALSE
    /\ EndSession(session # 0 /\ accepted.src = "none")

\* STOP button: stop_video up to video_thread.wait(1000), or all of it when no
\* clock is running
stop_video ==
    /\ ctl_pc = "idle"
    /\ stop_btn
    /\ IF video_thread # 0 /\ isRunning(video_thread)
       THEN /\ has_monitoring_armed' = TRUE
            /\ monitoring_armed' = FALSE
            /\ threads' = [threads EXCEPT ![video_thread] = stop(@)]
            /\ ctl_pc' = "stop_wait"
            /\ UNCHANGED <<last_frame, fall_triggered, start_btn, pause_btn, stop_btn,
                           current_time_sec, history>>
       ELSE /\ stop_reset
            /\ UNCHANGED <<threads, ctl_pc>>
    /\ UNCHANGED <<video_path, video_thread, min_spin, sec_spin, mmwave_checkbox, queue,
                   video_frames, sink, msgs_sent, classified, unhandled, broker, mmwave_status, feed>>

\* video_thread.wait(1000) returns (the clock exited, or the second passed) and
\* stop_video runs to its end
stop_video_return ==
    /\ ctl_pc = "stop_wait"
    /\ ctl_pc' = "idle"
    /\ stop_reset
    /\ UNCHANGED <<video_path, video_thread, min_spin, sec_spin, mmwave_checkbox, threads,
                   queue, video_frames, sink, msgs_sent, classified, unhandled, broker, mmwave_status, feed>>

\* closeEvent up to video_thread.wait(), or all of it when there is no clock:
\* the feed listener is stopped, the database connection closed, the event accepted
\* closeEvent's "mmwave_thread.stop(); mmwave_thread.wait(1000)"
close_listener ==
    IF mmwave_thread # 0 /\ listener_isRunning(mmwave_thread)
    THEN [listeners EXCEPT ![mmwave_thread].stopf = TRUE]
    ELSE listeners

closeEvent ==
    /\ ctl_pc = "idle"
    /\ IF video_thread # 0
       THEN /\ threads' = [threads EXCEPT ![video_thread] = stop(@)]
            /\ ctl_pc' = "close_wait"
            /\ UNCHANGED listeners
       ELSE /\ UNCHANGED threads
            /\ ctl_pc' = "closed"
            /\ listeners' = close_listener
    /\ UNCHANGED <<video_path, video_thread, has_monitoring_armed, monitoring_armed,
                   last_frame, fall_triggered, current_time_sec, min_spin, sec_spin,
                   start_btn, pause_btn, stop_btn, mmwave_checkbox, queue, video_frames,
                   sink, history, msgs_sent, classified, unhandled, broker, mmwave_status,
                   mmwave_thread>>

\* video_thread.wait() returns: no time limit, so only once the clock has left run()
closeEvent_return ==
    /\ ctl_pc = "close_wait"
    /\ ~isRunning(video_thread)
    /\ ctl_pc' = "closed"
    /\ listeners' = close_listener
    /\ UNCHANGED <<video_path, video_thread, has_monitoring_armed, monitoring_armed,
                   last_frame, fall_triggered, current_time_sec, min_spin, sec_spin,
                   start_btn, pause_btn, stop_btn, mmwave_checkbox, threads, queue,
                   video_frames, sink, history, msgs_sent, classified, unhandled, broker,
                   mmwave_status, mmwave_thread>>

\* FallAlarmTester.start_mmwave_if_enabled: "stop existing" (stop(), then
\* wait(1000), within which the listener has left run() or has not), drop the
\* reference, and with the feed enabled start a new listener. exited: the old
\* listener left run() within the wait.
start_mmwave_if_enabled(enabled, exited) ==
    LET halted == IF mmwave_thread # 0 /\ listener_isRunning(mmwave_thread)
                  THEN [listeners EXCEPT ![mmwave_thread] =
                           [pc |-> IF exited THEN "done" ELSE "running", stopf |-> TRUE]]
                  ELSE listeners
        free == {l \in ListenerIds : listeners[l].pc = "none"}
        new == CHOOSE l \in free : \A m \in free : l <= m
    IN  IF enabled
        THEN /\ free # {}
             /\ listeners' = [halted EXCEPT ![new] = MmwaveMqttThread]
             /\ mmwave_thread' = new
             /\ mmwave_status' = "connecting"
        ELSE /\ listeners' = halted
             /\ mmwave_thread' = 0
             /\ mmwave_status' = "disabled"

\* FallAlarmTester.on_mmwave_toggle: the checkbox changed; the setting is saved
\* and the listener restarted
on_mmwave_toggle(exited) ==
    /\ ctl_pc = "idle"
    /\ mmwave_checkbox' = ~mmwave_checkbox
    /\ start_mmwave_if_enabled(~mmwave_checkbox, exited)
    /\ UNCHANGED <<video_path, video_thread, has_monitoring_armed, monitoring_armed,
                   last_frame, fall_triggered, current_time_sec, min_spin, sec_spin,
                   start_btn, pause_btn, stop_btn, ctl_pc, threads, queue, video_frames,
                   sink, history, msgs_sent, classified, unhandled, broker>>

\* ------------------------------------------------ control thread: queued slots
SinkOutcomes == {"ok", "not_connected", "insert_error"}

\* the row trigger_fall builds ("data"), with the session it was built in
AlertRecord(source, raw) ==
    [source |-> source, video_sec |-> current_time_sec, raw |-> raw,
     session |-> session, state |-> SessionState]

\* (variant: no "anti double trigger" check)
trigger_fall_unguarded(source, raw, outcome) ==
    /\ fall_triggered' = TRUE
    /\ threads' = IF video_thread # 0
                  THEN [threads EXCEPT ![video_thread] = mark_fall_triggered(@)]
                  ELSE threads
    /\ IF source = "mmwave"
       THEN /\ min_spin' = setValue(int_sec(current_time_sec) \div 60)
            /\ sec_spin' = setValue(int_sec(current_time_sec) % 60)
       ELSE UNCHANGED <<min_spin, sec_spin>>
    /\ IF outcome = "ok"
       THEN sink' = Append(sink, AlertRecord(source, raw))
       ELSE UNCHANGED sink

\* (variant: the session latch is checked but never set)
trigger_fall_latch_unset(source, raw, outcome) ==
    IF fall_triggered
    THEN UNCHANGED <<fall_triggered, threads, min_spin, sec_spin, sink>>
    ELSE /\ UNCHANGED fall_triggered
         /\ threads' = IF video_thread # 0
                       THEN [threads EXCEPT ![video_thread] = mark_fall_triggered(@)]
                       ELSE threads
         /\ IF source = "mmwave"
            THEN /\ min_spin' = setValue(int_sec(current_time_sec) \div 60)
                 /\ sec_spin' = setValue(int_sec(current_time_sec) % 60)
            ELSE UNCHANGED <<min_spin, sec_spin>>
         /\ IF outcome = "ok"
            THEN sink' = Append(sink, AlertRecord(source, raw))
            ELSE UNCHANGED sink

\* (variant: the spin boxes follow a live-feed signal before the latch is checked)
trigger_fall_spin_first(source, raw, outcome) ==
    /\ IF source = "mmwave"
       THEN /\ min_spin' = setValue(int_sec(current_time_sec) \div 60)
            /\ sec_spin' = setValue(int_sec(current_time_sec) % 60)
       ELSE UNCHANGED <<min_spin, sec_spin>>
    /\ IF fall_triggered
       THEN UNCHANGED <<fall_triggered, threads, sink>>
       ELSE /\ fall_triggered' = TRUE
            /\ threads' = IF video_thread # 0
                          THEN [threads EXCEPT ![video_thread] = mark_fall_triggered(@)]
                          ELSE threads
            /\ IF outcome = "ok"
               THEN sink' = Append(sink, AlertRecord(source, raw))
               ELSE UNCHANGED sink

\* (variant: a failed insert clears the session latch again)
trigger_fall_rolls_back(source, raw, outcome) ==
    IF fall_triggered
    THEN UNCHANGED <<fall_triggered, threads, min_spin, sec_spin, sink>>
    ELSE /\ fall_triggered' = (outcome = "ok")
         /\ threads' = IF video_thread # 0
                       THEN [threads EXCEPT ![video_thread] = mark_fall_triggered(@)]
                       ELSE threads
         /\ IF source = "mmwave"
            THEN /\ min_spin' = setValue(int_sec(current_time_sec) \div 60)
                 /\ sec_spin' = setValue(int_sec(current_time_sec) % 60)
            ELSE UNCHANGED <<min_spin, sec_spin>>
         /\ IF outcome = "ok"
            THEN sink' = Append(sink, AlertRecord(source, raw))
            ELSE UNCHANGED sink

\* FallAlarmTester.trigger_fall; outcome: what the sink does at this call
trigger_fall(source, raw, outcome) ==
    IF fall_triggered
    THEN UNCHANGED <<fall_triggered, threads, min_spin, sec_spin, sink>>
    ELSE /\ fall_triggered' = TRUE
         /\ threads' = IF video_thread # 0
                       THEN [threads EXCEPT ![video_thread] = mark_fall_triggered(@)]
                       ELSE threads
         /\ IF source = "mmwave"
            THEN /\ min_spin' = setValue(int_sec(current_time_sec) \div 60)
                 /\ sec_spin' = setValue(int_sec(current_time_sec) % 60)
            ELSE UNCHANGED <<min_spin, sec_spin>>
         /\ IF outcome = "ok"
            THEN sink' = Append(sink, AlertRecord(source, raw))
            ELSE UNCHANGED sink

\* history kept at every call of trigger_fall
NoteSignal(source, outcome) ==
    /\ signals' = IF session # 0 /\ \A i \in 1..Len(signals) : signals[i] # source
                  THEN Append(signals, source) ELSE signals
    /\ accepted' = IF session # 0 /\ accepted.src = "none" /\ ~fall_triggered
                   THEN [src |-> source, sec |-> current_time_sec, ok |-> outcome = "ok"]
                   ELSE accepted
    /\ UNCHANGED <<narms, session, stopped>>

Deliverable(kind) ==
    /\ ctl_pc = "idle"
    /\ queue # <<>>
    /\ Head(queue).kind = kind
    /\ queue' = Tail(queue)

\* FallAlarmTester.update_time_sec (with update_time, posted right before it)
update_time_sec ==
    /\ Deliverable("update_time_sec")
    /\ current_time_sec' = Head(queue).val
    /\ UNCHANGED <<video_path, video_thread, has_monitoring_armed, monitoring_armed,
                   last_frame, fall_triggered, min_spin, sec_spin, start_btn, pause_btn,
                   stop_btn, mmwave_checkbox, ctl_pc, threads, video_frames, sink,
                   history, msgs_sent, classified, unhandled, broker, mmwave_status, feed>>

\* the lambda connected to fall_by_timer
on_fall_by_timer ==
    /\ Deliverable("fall_by_timer")
    /\ \E outcome \in SinkOutcomes :
          /\ trigger_fall("fallback_timer", [fall_at_sec |-> Head(queue).val], outcome)
          /\ NoteSignal("fallback_timer", outcome)
    /\ UNCHANGED <<video_path, video_thread, has_monitoring_armed, monitoring_armed,
                   last_frame, current_time_sec, start_btn, pause_btn, stop_btn,
                   mmwave_checkbox, ctl_pc, video_frames, msgs_sent, classified, unhandled, broker, mmwave_status, feed>>

\* (variant: every message delivered while armed is forwarded, fall or not)
on_mmwave_message_forwards_all ==
    /\ Deliverable("mmwave")
    /\ IF ~has_monitoring_armed
       THEN /\ unhandled' = TRUE
            /\ UNCHANGED <<classified, fall_triggered, threads, min_spin, sec_spin, sink,
                           history>>
       ELSE /\ UNCHANGED unhandled
            /\ IF ~monitoring_armed
               THEN UNCHANGED <<classified, fall_triggered, threads, min_spin, sec_spin,
                                sink, history>>
               ELSE /\ classified' = classified + 1
                    /\ \E outcome \in SinkOutcomes :
                          /\ trigger_fall("mmwave", Head(queue).payload, outcome)
                          /\ NoteSignal("mmwave", outcome)
    /\ UNCHANGED <<video_path, video_thread, has_monitoring_armed, monitoring_armed,
                   last_frame, current_time_sec, start_btn, pause_btn, stop_btn,
                   mmwave_checkbox, ctl_pc, video_frames, msgs_sent, broker, mmwave_status, feed>>

\* (variant: a message delivered after the session triggered is not classified)
on_mmwave_message_skips_triggered ==
    /\ Deliverable("mmwave")
    /\ IF ~has_monitoring_armed
       THEN /\ unhandled' = TRUE
            /\ UNCHANGED <<classified, fall_triggered, threads, min_spin, sec_spin, sink,
                           history>>
       ELSE /\ UNCHANGED unhandled
            /\ IF ~monitoring_armed \/ fall_triggered
               THEN UNCHANGED <<classified, fall_triggered, threads, min_spin, sec_spin,
                                sink, history>>
               ELSE /\ classified' = classified + 1
                    /\ IF payload_is_fall(Head(queue).payload)
                       THEN \E outcome \in SinkOutcomes :
                               /\ trigger_fall("mmwave", Head(queue).payload, outcome)
                               /\ NoteSignal("mmwave", outcome)
                       ELSE UNCHANGED <<fall_triggered, threads, min_spin, sec_spin, sink,
                                        history>>
    /\ UNCHANGED <<video_path, video_thread, has_monitoring_armed, monitoring_armed,
                   last_frame, current_time_sec, start_btn, pause_btn, stop_btn,
                   mmwave_checkbox, ctl_pc, video_frames, msgs_sent, broker, mmwave_status, feed>>

\* FallAlarmTester.on_mmwave_message
on_mmwave_message ==
    /\ Deliverable("mmwave")
    /\ IF ~has_monitoring_armed
       THEN \* AttributeError: 'FallAlarmTester' object has no attribute 'monitoring_armed'
            /\ unhandled' = TRUE
            /\ UNCHANGED <<classified, fall_triggered, threads, min_spin, sec_spin, sink,
                           history>>
       ELSE /\ UNCHANGED unhandled
            /\ IF ~monitoring_armed
               THEN \* "if not self.monitoring_armed: return"
                    UNCHANGED <<classified, fall_triggered, threads, min_spin, sec_spin,
                                sink, history>>
               ELSE /\ classified' = classified + 1
                    /\ IF payload_is_fall(Head(queue).payload)
                       THEN \E outcome \in SinkOutcomes :
                               /\ trigger_fall("mmwave", Head(queue).payload, outcome)
                               /\ NoteSignal("mmwave", outcome)
                       ELSE UNCHANGED <<fall_triggered, threads, min_spin, sec_spin, sink,
                                        history>>
    /\ UNCHANGED <<video_path, video_thread, has_monitoring_armed, monitoring_armed,
                   last_frame, current_time_sec, start_btn, pause_btn, stop_btn,
                   mmwave_checkbox, ctl_pc, video_frames, msgs_sent, broker, mmwave_status, feed>>

\* FallAlarmTester.on_video_finished
on_video_finished ==
    /\ Deliverable("finished")
    /\ has_monitoring_armed' = TRUE
    /\ monitoring_armed' = FALSE
    /\ last_frame' = 0
    /\ fall_triggered' = FALSE
    /\ video_thread' = 0
    /\ start_btn' = TRUE
    /\ pause_btn' = FALSE
    /\ stop_btn' = FALSE
    /\ EndSession(FALSE)
    /\ UNCHANGED <<video_path, current_time_sec, min_spin, sec_spin, mmwave_checkbox,
                   ctl_pc, threads, video_frames, sink, msgs_sent, classified, unhandled, broker, mmwave_status, feed>>

\* ------------------------------------------------------------- clock thread
ClockUnchanged ==
    UNCHANGED <<video_path, video_thread, has_monitoring_armed, monitoring_armed,
                last_frame, fall_triggered, current_time_sec, min_spin, sec_spin,
                start_btn, pause_btn, stop_btn, mmwave_checkbox, ctl_pc, video_frames,
                sink, history, msgs_sent, classified, unhandled, broker, mmwave_status, feed>>

CanPost == Len(queue) < MaxQueue

Post(kind, r, val) == queue' = Append(queue, Event(kind, r, val, EmptyPayload))

\* what cv2.VideoCapture(path) / cap.isOpened() can do
OpenOutcomes(t) == IF t.has_path THEN {"opened", "failed"} ELSE {"failed", "raised"}

\* (variant: a source that does not open ends the run without a notification)
run_open_fails_silently(r) ==
    /\ threads[r].pc = "start"
    /\ \E o \in OpenOutcomes(threads[r]) :
          CASE o = "opened" ->
                 /\ threads' = [threads EXCEPT ![r].pc = "gate", ![r].cap = o,
                                               ![r].current_frame = threads[r].start_frame]
                 /\ UNCHANGED queue
            [] o = "failed" ->
                 /\ threads' = [threads EXCEPT ![r].pc = "done", ![r].cap = o]
                 /\ UNCHANGED queue
            [] o = "raised" ->
                 /\ threads' = [threads EXCEPT ![r].pc = "done", ![r].cap = o]
                 /\ UNCHANGED queue
    /\ ClockUnchanged

\* VideoThread.run up to the loop
run_open(r) ==
    /\ threads[r].pc = "start"
    /\ \E o \in OpenOutcomes(threads[r]) :
          CASE o = "opened" ->
                 /\ threads' = [threads EXCEPT ![r].pc = "gate", ![r].cap = o,
                                               ![r].current_frame = threads[r].start_frame]
                 /\ UNCHANGED queue
            [] o = "failed" ->
                 /\ CanPost
                 /\ Post("finished", r, 0)
                 /\ threads' = [threads EXCEPT ![r].pc = "done", ![r].cap = o]
            [] o = "raised" ->
                 /\ threads' = [threads EXCEPT ![r].pc = "done", ![r].cap = o]
                 /\ UNCHANGED queue
    /\ ClockUnchanged

\* (variant: "while self._paused:", the stop flag is not read while paused)
run_gate_ignores_stop(r) ==
    /\ threads[r].pc = "gate"
    /\ IF threads[r].paused
       THEN /\ threads' = [threads EXCEPT ![r].pc = "parked"]
            /\ UNCHANGED queue
       ELSE IF threads[r].stopf
            THEN /\ CanPost
                 /\ Post("finished", r, 0)
                 /\ threads' = [threads EXCEPT ![r].pc = "done", ![r].woke = FALSE]
            ELSE /\ threads' = [threads EXCEPT ![r].pc = "read"]
                 /\ UNCHANGED queue
    /\ ClockUnchanged

\* the loop's pause handling, under the mutex: park, leave on stop, or go on
run_gate(r) ==
    /\ threads[r].pc = "gate"
    /\ IF threads[r].paused /\ ~threads[r].stopf
       THEN /\ threads' = [threads EXCEPT ![r].pc = "parked"]
            /\ UNCHANGED queue
       ELSE IF threads[r].stopf
            THEN /\ CanPost
                 /\ Post("finished", r, 0)
                 /\ threads' = [threads EXCEPT ![r].pc = "done", ![r].woke = FALSE]
            ELSE /\ threads' = [threads EXCEPT ![r].pc = "read"]
                 /\ UNCHANGED queue
    /\ ClockUnchanged

\* cap.read(), then the elapsed-time notifications; end of stream ends the run
run_read(r) ==
    /\ threads[r].pc = "read"
    /\ CanPost
    /\ IF threads[r].current_frame < video_frames
       THEN /\ Post("update_time_sec", r, threads[r].current_frame)
            /\ threads' = [threads EXCEPT ![r].pc = "check"]
       ELSE /\ Post("finished", r, 0)
            /\ threads' = [threads EXCEPT ![r].pc = "done"]
    /\ ClockUnchanged

\* the iteration's tail: show the frame, current_frame += 1, sleep
advance(t) == [t EXCEPT !.current_frame = @ + 1, !.pc = "gate"]

\* "if (not self.fall_triggered) and current_time >= self.fall_time_sec"
run_check(r) ==
    /\ threads[r].pc = "check"
    /\ LET t == threads[r]
       IN threads' = [threads EXCEPT ![r] =
                         IF ~t.fall_triggered
                            /\ threshold_reached(t.current_frame, t.fall_time_sec)
                         THEN [t EXCEPT !.pc = "fire"]
                         ELSE advance(t)]
    /\ UNCHANGED queue
    /\ ClockUnchanged

\* (variant: the run's latch is not set after the emit)
run_fire_no_latch(r) ==
    /\ threads[r].pc = "fire"
    /\ CanPost
    /\ Post("fall_by_timer", r, threads[r].fall_time_sec)
    /\ threads' = [threads EXCEPT ![r] =
                      advance([@ EXCEPT !.fired = Append(@, threads[r].current_frame)])]
    /\ ClockUnchanged

\* "self.fall_by_timer.emit(); self.fall_triggered = True", then the iteration's tail
run_fire(r) ==
    /\ threads[r].pc = "fire"
    /\ CanPost
    /\ Post("fall_by_timer", r, threads[r].fall_time_sec)
    /\ threads' = [threads EXCEPT ![r] =
                      advance([@ EXCEPT !.fall_triggered = TRUE,
                                        !.fired = Append(@, threads[r].current_frame)])]
    /\ ClockUnchanged

\* ------------------------------------------------------------ feed listener
\* (variant: every text that is not a JSON object is wrapped, also one that
\* starts with a brace)
on_message_wraps_all(raw) ==
    /\ ListenerConnected
    /\ ctl_pc # "closed"
    /\ CanPost
    /\ msgs_sent' = msgs_sent + 1
    /\ queue' = Append(queue,
                       IF startswith_brace(raw) /\ json_loads(raw).ok
                       THEN Event("mmwave", 0, 0, json_loads(raw).data)
                       ELSE Event("mmwave", 0, 0, WrapRaw(raw)))
    /\ UNCHANGED <<video_path, video_thread, has_monitoring_armed, monitoring_armed,
                   last_frame, fall_triggered, current_time_sec, min_spin, sec_spin,
                   start_btn, pause_btn, stop_btn, mmwave_checkbox, ctl_pc, threads,
                   video_frames, sink, history, classified, unhandled, broker,
                   mmwave_status, feed>>

\* MmwaveMqttThread.run.on_message: a message with text raw arrives; the dict
\* is emitted, or the parse error reported. (data["_topic"], set here, is read
\* by nothing.)
on_message(raw) ==
    /\ ListenerConnected
    /\ ctl_pc # "closed"
    /\ CanPost
    /\ msgs_sent' = msgs_sent + 1
    /\ queue' = Append(queue,
                       IF startswith_brace(raw)
                       THEN IF json_loads(raw).ok
                            THEN Event("mmwave", 0, 0, json_loads(raw).data)
                            ELSE \* status.emit("mmWave parse error: ...")
                                 Event("status", 0, 0, EmptyPayload)
                       ELSE Event("mmwave", 0, 0, WrapRaw(raw)))
    /\ UNCHANGED <<video_path, video_thread, has_monitoring_armed, monitoring_armed,
                   last_frame, fall_triggered, current_time_sec, min_spin, sec_spin,
                   start_btn, pause_btn, stop_btn, mmwave_checkbox, ctl_pc, threads,
                   video_frames, sink, history, classified, unhandled, broker,
                   mmwave_status, feed>>

\* MmwaveMqttThread.run leaves its loop ("while not self._stop") and returns
\* through "finally": loop_stop(), disconnect()
mmwave_run_exit(l) ==
    /\ listener_isRunning(l)
    /\ listeners[l].stopf
    /\ listeners' = [listeners EXCEPT ![l].pc = "done"]
    /\ UNCHANGED <<video_path, video_thread, has_monitoring_armed, monitoring_armed,
                   last_frame, fall_triggered, current_time_sec, min_spin, sec_spin,
                   start_btn, pause_btn, stop_btn, mmwave_checkbox, ctl_pc, threads, queue,
                   video_frames, sink, history, msgs_sent, classified, unhandled, broker,
                   mmwave_status, mmwave_thread>>

\* FallAlarmTester.on_mmwave_status: the label shows the text
on_mmwave_status ==
    /\ Deliverable("status")
    /\ mmwave_status' = "parse error"
    /\ UNCHANGED <<video_path, video_thread, has_monitoring_armed, monitoring_armed,
                   last_frame, fall_triggered, current_time_sec, min_spin, sec_spin,
                   start_btn, pause_btn, stop_btn, mmwave_checkbox, ctl_pc, threads,
                   video_frames, sink, history, msgs_sent, classified, unhandled, broker, feed>>

\* ------------------------------------------------------------ specification
Next ==
    \/ \E chosen \in BOOLEAN : select_video(chosen)
    \/ start_video
    \/ pause_resume_video
    \/ stop_video
    \/ stop_video_return
    \/ closeEvent
    \/ closeEvent_return
    \/ update_time_sec
    \/ on_fall_by_timer
    \/ on_mmwave_message
    \/ on_video_finished
    \/ \E r \in RunIds : run_open(r)
    \/ \E r \in RunIds : run_gate(r)
    \/ \E r \in RunIds : run_read(r)
    \/ \E r \in RunIds : run_check(r)
    \/ \E r \in RunIds : run_fire(r)
    \/ \E raw \in MsgTexts : msgs_sent < MaxMsgs /\ on_message(raw)

Spec == Init /\ [][Next]_vars


\* Scenario A: the default threshold, a video selected, the live feed not in use,
\* one arm.
InitScenarioA ==
    /\ InitCommon
    /\ video_path = FALSE
    /\ mmwave_checkbox = FALSE
    /\ InitListener
    /\ sec_spin = ScenarioThreshold
    /\ video_frames = ScenarioFrames

NextScenarioA ==
    \/ narms = 0 /\ select_video(TRUE)
    \/ pause_resume_video
    \/ update_time_sec
    \/ on_fall_by_timer
    \/ on_video_finished
    \/ run_open(1)
    \/ run_gate(1)
    \/ run_read(1)
    \/ run_check(1)
    \/ run_fire(1)

SpecScenarioA == InitScenarioA /\ [][NextScenarioA]_vars

\* Scenario B: a video selected, the live feed in use, one arm; a fall message
\* reaches the control thread when the elapsed time is ScenarioBMessageAt and
\* the session is Armed.
InitScenarioB ==
    /\ InitCommon
    /\ video_path = FALSE
    /\ mmwave_checkbox = TRUE
    /\ InitListener
    /\ sec_spin = ScenarioBThreshold
    /\ video_frames = ScenarioBFrames

NextScenarioB ==
    \/ narms = 0 /\ select_video(TRUE)
    \/ pause_resume_video
    \/ update_time_sec
    \/ on_fall_by_timer
    \/ on_mmwave_message
    \/ on_video_finished
    \/ run_open(1)
    \/ run_gate(1)
    \/ run_read(1)
    \/ run_check(1)
    \/ run_fire(1)
    \/ /\ current_time_sec = ScenarioBMessageAt * Fps
       /\ SessionState = "Armed"
       /\ queue = <<>>
       /\ msgs_sent < MaxMsgs
       /\ on_message(dumps(PayloadFall))

SpecScenarioB == InitScenarioB /\ [][NextScenarioB]_vars

\* Classification: the live feed in use, no video; the feed delivers any payload
\* of ClassifyPayloads, also before the first arm and after a stop.
InitClassify ==
    /\ InitCommon
    /\ video_path = FALSE
    /\ mmwave_checkbox = TRUE
    /\ InitListener
    /\ sec_spin = 0
    /\ video_frames = MaxFrames

NextClassify ==
    \/ start_video
    \/ stop_video
    \/ on_mmwave_message
    \/ \E raw \in ClassifyTexts : msgs_sent < MaxMsgs /\ on_message(raw)

SpecClassify == InitClassify /\ [][NextClassify]_vars

\* Malformed messages: the live feed in use, no video; the feed delivers texts
\* that are not a JSON object, and the two well-formed texts of the session
\* model, in any order.
InitMalformed ==
    /\ InitCommon
    /\ video_path = FALSE
    /\ mmwave_checkbox = TRUE
    /\ InitListener
    /\ sec_spin = 0
    /\ video_frames = MaxFrames

NextMalformed ==
    \/ start_video
    \/ stop_video
    \/ on_mmwave_message
    \/ on_mmwave_status
    \/ \E raw \in MalformedTexts \cup MsgTexts :
          msgs_sent < MaxMalformedMsgs /\ on_message(raw)

SpecMalformed == InitMalformed /\ [][NextMalformed]_vars

\* Live monitoring: the live feed in use and no video selected, now or later;
\* the event loop hands over what is queued.
InitLive ==
    /\ InitCommon
    /\ video_path = FALSE
    /\ mmwave_checkbox = TRUE
    /\ InitListener
    /\ sec_spin \in 0..MaxFallAt
    /\ video_frames = MaxFrames

NextLive ==
    \/ start_video
    \/ select_video(FALSE)
    \/ stop_video
    \/ on_mmwave_message
    \/ \E raw \in MsgTexts : msgs_sent < MaxMalformedMsgs /\ on_message(raw)

FairLive == WF_vars(on_mmwave_message)

SpecLive == InitLive /\ [][NextLive]_vars /\ FairLive

\* The live feed switched on and off: no video selected, the listeners
\* scheduled freely, the event loop hands over what is queued.
InitFeed ==
    /\ InitCommon
    /\ video_path = FALSE
    /\ mmwave_checkbox \in BOOLEAN
    /\ InitListener
    /\ sec_spin = 0
    /\ video_frames = MaxFrames

NextFeed ==
    \/ \E exited \in BOOLEAN : on_mmwave_toggle(exited)
    \/ \E l \in ListenerIds : mmwave_run_exit(l)
    \/ start_video
    \/ stop_video
    \/ on_mmwave_message
    \/ \E raw \in MsgTexts : msgs_sent < MaxMalformedMsgs /\ on_message(raw)

SpecFeed == InitFeed /\ [][NextFeed]_vars

\* One armed session with a video, the live feed not in use; the clock thread
\* is scheduled, the event loop hands over what is queued, and the bounded
\* wait of stop_video returns.
InitStop ==
    /\ InitCommon
    /\ video_path = FALSE
    /\ mmwave_checkbox = FALSE
    /\ InitListener
    /\ sec_spin \in 0..MaxFallAt
    /\ video_frames = MaxFrames

NextStop ==
    \/ narms = 0 /\ select_video(TRUE)
    \/ pause_resume_video
    \/ stop_video
    \/ stop_video_return
    \/ update_time_sec
    \/ on_fall_by_timer
    \/ on_video_finished
    \/ run_open(1)
    \/ run_gate(1)
    \/ run_read(1)
    \/ run_check(1)
    \/ run_fire(1)

FairStop ==
    /\ WF_vars(run_open(1))
    /\ WF_vars(run_gate(1))
    /\ WF_vars(run_read(1))
    /\ WF_vars(run_check(1))
    /\ WF_vars(run_fire(1))
    /\ WF_vars(update_time_sec)
    /\ WF_vars(on_fall_by_timer)
    /\ WF_vars(on_video_finished)
    /\ WF_vars(stop_video_return)

SpecStop == InitStop /\ [][NextStop]_vars /\ FairStop

\* ------------------------------------- the broker variant (videomqtt.py)
\* Its VideoThread is the one above with the latch called _event_emitted (the
\* field fall_triggered of the record), no update_time_sec signal and no
\* mark_fall_triggered; its control thread keeps last_frame and event_emitted
\* and publishes to the broker instead of inserting into the database.

\* the state only v1.py's control thread uses
v1only == <<has_monitoring_armed, monitoring_armed, fall_triggered, mmwave_checkbox, sink,
            session, signals, accepted, stopped, msgs_sent, classified, unhandled,
            mmwave_status, feed>>

\* data_config["status"]
StatusValues == {"PEOPLE_FALL", "PEOPLE", "NO_PEOPLE"}

\* mqtt_client.publish: rc is MQTT_ERR_SUCCESS, rc is an error, or it raises
PublishOutcomes == {"ok", "failed", "raised"}

\* (variant: the value returned looks at the first publish only)
publish_alerts_first_only(status, fall_detected, connected, rc1, rc2) ==
    LET hitam == [topic |-> "hitam", status |-> status,
                  fall_detected |-> IF fall_detected THEN 1 ELSE 0]
        rsi == [topic |-> "rsi", status |-> status,
                fall_detected |-> IF fall_detected THEN 1 ELSE 0]
    IN  IF ~connected
        THEN [msgs |-> <<>>, ok |-> FALSE]
        ELSE IF rc1 = "raised"
        THEN [msgs |-> <<>>, ok |-> FALSE]
        ELSE [msgs |-> (IF rc1 = "ok" THEN <<hitam>> ELSE <<>>)
                          \o (IF rc2 = "ok" THEN <<rsi>> ELSE <<>>),
              ok |-> rc1 = "ok"]

\* publish_alerts: the messages the broker takes, and the value returned
publish_alerts(status, fall_detected, connected, rc1, rc2) ==
    LET hitam == [topic |-> "hitam", status |-> status,
                  fall_detected |-> IF fall_detected THEN 1 ELSE 0]
        rsi == [topic |-> "rsi", status |-> status,
                fall_detected |-> IF fall_detected THEN 1 ELSE 0]
    IN  IF ~connected
        THEN [msgs |-> <<>>, ok |-> FALSE]
        ELSE IF rc1 = "raised"
        THEN [msgs |-> <<>>, ok |-> FALSE]
        ELSE [msgs |-> (IF rc1 = "ok" THEN <<hitam>> ELSE <<>>)
                          \o (IF rc2 = "ok" THEN <<rsi>> ELSE <<>>),
              ok |-> rc1 = "ok" /\ rc2 = "ok"]

\* select_video: only the path is kept
mq_select_video(chosen) ==
    /\ ctl_pc = "idle"
    /\ video_path' = (video_path \/ chosen)
    /\ UNCHANGED <<video_thread, last_frame, current_time_sec, min_spin, sec_spin,
                   start_btn, pause_btn, stop_btn, ctl_pc, threads, queue, video_frames,
                   narms, broker, v1only>>

\* START button
mq_start_video ==
    /\ ctl_pc = "idle"
    /\ start_btn
    /\ IF ~video_path
       THEN \* "Select a video first!"
            UNCHANGED <<start_btn, pause_btn, stop_btn, threads, video_thread, narms>>
       ELSE IF video_thread # 0 /\ isRunning(video_thread)
       THEN \* a clock is running: resume it if it is paused
            /\ threads' = IF threads[video_thread].paused
                          THEN [threads EXCEPT ![video_thread] = toggle_pause(@)]
                          ELSE threads
            /\ UNCHANGED <<start_btn, pause_btn, stop_btn, video_thread, narms>>
       ELSE /\ narms < MaxArms
            /\ start_btn' = FALSE
            /\ pause_btn' = TRUE
            /\ stop_btn' = TRUE
            /\ threads' = [threads EXCEPT ![narms + 1] =
                              VideoThread(video_path, total_sec, last_frame, event_emitted, 0)]
            /\ video_thread' = narms + 1
            /\ narms' = narms + 1
    /\ UNCHANGED <<video_path, last_frame, current_time_sec, min_spin, sec_spin, ctl_pc,
                   queue, video_frames, broker, v1only>>

\* PAUSE button, or a click on the video
mq_pause_resume_video ==
    /\ ctl_pc = "idle"
    /\ IF video_thread = 0 \/ ~isRunning(video_thread)
       THEN UNCHANGED threads
       ELSE threads' = [threads EXCEPT ![video_thread] = toggle_pause(@)]
    /\ UNCHANGED <<video_path, video_thread, last_frame, current_time_sec, min_spin,
                   sec_spin, start_btn, pause_btn, stop_btn, ctl_pc, queue, video_frames,
                   narms, broker, v1only>>

\* stop_video from "# reset full stop" to its end
mq_stop_reset ==
    /\ last_frame' = 0
    /\ event_emitted' = FALSE
    /\ start_btn' = TRUE
    /\ pause_btn' = FALSE
    /\ stop_btn' = FALSE

\* STOP button: stop_video up to video_thread.wait(1000), or all of it when no
\* clock is running
mq_stop_video ==
    /\ ctl_pc = "idle"
    /\ stop_btn
    /\ IF video_thread # 0 /\ isRunning(video_thread)
       THEN /\ last_frame' = threads[video_thread].current_frame
            /\ event_emitted' = threads[video_thread].fall_triggered
            /\ threads' = [threads EXCEPT ![video_thread] = stop(@)]
            /\ ctl_pc' = "stop_wait"
            /\ UNCHANGED <<start_btn, pause_btn, stop_btn>>
       ELSE /\ mq_stop_reset
            /\ UNCHANGED <<threads, ctl_pc>>
    /\ UNCHANGED <<video_path, video_thread, current_time_sec, min_spin, sec_spin, queue,
                   video_frames, narms, published,
                   last_publish, v1only>>

\* (variant: the position read from the clock is kept, stop works as a pause)
mq_stop_video_return_keeps_position ==
    /\ ctl_pc = "stop_wait"
    /\ ctl_pc' = "idle"
    /\ event_emitted' = FALSE
    /\ start_btn' = TRUE
    /\ pause_btn' = FALSE
    /\ stop_btn' = FALSE
    /\ UNCHANGED <<video_path, video_thread, last_frame, current_time_sec, min_spin,
                   sec_spin, threads, queue, video_frames, narms, published,
                   last_publish, v1only>>

\* video_thread.wait(1000) returns and stop_video runs to its end
mq_stop_video_return ==
    /\ ctl_pc = "stop_wait"
    /\ ctl_pc' = "idle"
    /\ mq_stop_reset
    /\ UNCHANGED <<video_path, video_thread, current_time_sec, min_spin, sec_spin, threads,
                   queue, video_frames, narms, published,
                   last_publish, v1only>>

\* update_time: the label and current_time_str, held as the frame they show
mq_update_time ==
    /\ Deliverable("update_time")
    /\ current_time_sec' = Head(queue).val
    /\ UNCHANGED <<video_path, video_thread, last_frame, min_spin, sec_spin, start_btn,
                   pause_btn, stop_btn, ctl_pc, threads, video_frames, narms, broker,
                   v1only>>

\* (variant: the messages carry fall_detected = 1 whatever the configured status)
on_event_time_reached_always_fall ==
    /\ Deliverable("fall_time_reached")
    /\ event_emitted' = TRUE
    /\ \E status_cfg \in StatusValues, connected \in BOOLEAN, rc1, rc2 \in PublishOutcomes :
          LET res == publish_alerts(status_cfg, TRUE, connected, rc1, rc2)
          IN  /\ published' = published \o res.msgs
              /\ last_publish' = [called |-> TRUE, status |-> status_cfg,
                                  connected |-> connected, ok |-> res.ok]
    /\ UNCHANGED <<video_path, video_thread, last_frame, current_time_sec, min_spin,
                   sec_spin, start_btn, pause_btn, stop_btn, ctl_pc, threads, video_frames,
                   narms, v1only>>

\* on_event_time_reached: the slot of fall_time_reached; publish_alerts is
\* called with the configured status, and what it returns chooses the report
on_event_time_reached ==
    /\ Deliverable("fall_time_reached")
    /\ event_emitted' = TRUE
    /\ \E status_cfg \in StatusValues, connected \in BOOLEAN, rc1, rc2 \in PublishOutcomes :
          LET res == publish_alerts(status_cfg, status_cfg = "PEOPLE_FALL",
                                    connected, rc1, rc2)
          IN  /\ published' = published \o res.msgs
              /\ last_publish' = [called |-> TRUE, status |-> status_cfg,
                                  connected |-> connected, ok |-> res.ok]
    /\ UNCHANGED <<video_path, video_thread, last_frame, current_time_sec, min_spin,
                   sec_spin, start_btn, pause_btn, stop_btn, ctl_pc, threads, video_frames,
                   narms, v1only>>

\* on_video_finished
mq_on_video_finished ==
    /\ Deliverable("finished")
    /\ last_frame' = 0
    /\ event_emitted' = FALSE
    /\ start_btn' = TRUE
    /\ pause_btn' = FALSE
    /\ stop_btn' = FALSE
    /\ UNCHANGED <<video_path, video_thread, current_time_sec, min_spin, sec_spin, ctl_pc,
                   threads, video_frames, narms, published,
                   last_publish, v1only>>

\* VideoThread.run: cap.read(), then update_time; end of stream ends the run
mq_run_read(r) ==
    /\ threads[r].pc = "read"
    /\ CanPost
    /\ IF threads[r].current_frame < video_frames
       THEN /\ Post("update_time", r, threads[r].current_frame)
            /\ threads' = [threads EXCEPT ![r].pc = "check"]
       ELSE /\ Post("finished", r, 0)
            /\ threads' = [threads EXCEPT ![r].pc = "done"]
    /\ ClockUnchanged

\* VideoThread.run: "self.fall_time_reached.emit(); self._event_emitted = True",
\* then the iteration's tail
mq_run_fire(r) ==
    /\ threads[r].pc = "fire"
    /\ CanPost
    /\ Post("fall_time_reached", r, threads[r].fall_time_sec)
    /\ threads' = [threads EXCEPT ![r] =
                      advance([@ EXCEPT !.fall_triggered = TRUE,
                                        !.fired = Append(@, threads[r].current_frame)])]
    /\ ClockUnchanged

InitMqtt ==
    /\ InitCommon
    /\ video_path = FALSE
    /\ mmwave_checkbox = FALSE
    /\ InitListener
    /\ sec_spin \in 0..MaxFallAt
    /\ video_frames = MaxFrames

NextMqtt ==
    \/ \E chosen \in BOOLEAN : mq_select_video(chosen)
    \/ mq_start_video
    \/ mq_pause_resume_video
    \/ mq_stop_video
    \/ mq_stop_video_return
    \/ mq_update_time
    \/ on_event_time_reached
    \/ mq_on_video_finished
    \/ \E r \in RunIds : run_open(r)
    \/ \E r \in RunIds : run_gate(r)
    \/ \E r \in RunIds : mq_run_read(r)
    \/ \E r \in RunIds : run_check(r)
    \/ \E r \in RunIds : mq_run_fire(r)

SpecMqtt == InitMqtt /\ [][NextMqtt]_vars

\* ------------------------------------------------------------------ claims
Rows(s) == {i \in 1..Len(sink) : sink[i].session = s}

\* a queued fall signal or live-feed message is handed to its slot in this step
SignalDelivery ==
    /\ ctl_pc = "idle"
    /\ queue # <<>>
    /\ Head(queue).kind \in {"fall_by_timer", "mmwave"}
    /\ queue' = Tail(queue)

\* the first frame of the run whose elapsed time is at or past the threshold
first_crossing(t) ==
    IF t.start_frame >= t.fall_time_sec * Fps THEN t.start_frame ELSE t.fall_time_sec * Fps

Started(r) == threads[r].pc # "none"

\* C1: between an arm and the stop_video or on_video_finished that ends the
\* session, trigger_fall inserts at most one alert record.
C1_AtMostOneRecordPerSession ==
    \A s \in 1..MaxArms : Cardinality(Rows(s)) <= 1

C1_Witness ==
    /\ session # 0
    /\ Rows(session) # {}
    /\ Len(signals) = 2
    /\ \E r \in RunIds : threads[r].pc = "parked"

\* C2: when a fallback-timer signal and a live-feed fall signal have both been
\* handed to trigger_fall in one session and the sink took the first one, the
\* session has exactly one alert record and its source is the first signal's.
C2_ExactlyOneFirstWins ==
    (session # 0 /\ Len(signals) = 2 /\ accepted.ok) =>
        /\ Cardinality(Rows(session)) = 1
        /\ \A i \in Rows(session) : sink[i].source = signals[1]
        /\ accepted.src = signals[1]

C2_WitnessTimerFirst ==
    /\ session # 0
    /\ signals = <<"fallback_timer", "mmwave">>
    /\ accepted.ok
    /\ Rows(session) # {}

\* C3: every alert record was inserted by a signal delivered while the
\* session was Armed.
C3_InsertOnlyWhileArmed ==
    \A i \in 1..Len(sink) : sink[i].state = "Armed"

\* C4: once a signal has been accepted in a session, the delivery of any later
\* signal in that session changes neither the triggered flag, the accepted
\* signal, the clocks' latches, the threshold spin boxes nor the sink.
C4_LaterSignalsDropped ==
    [][(session # 0 /\ accepted.src # "none" /\ SignalDelivery)
          => UNCHANGED <<fall_triggered, accepted, threads, min_spin, sec_spin, sink>>]_vars

C4_Witness ==
    /\ session # 0
    /\ accepted.src = "mmwave"
    /\ signals = <<"mmwave", "fallback_timer">>
    /\ fall_triggered

\* C5: the session state changes only along Idle->Armed, Armed->Triggered,
\* Triggered->Idle and Armed->Idle, and a session is armed only from Idle.
LegalTransitions ==
    {<<"Idle", "Armed">>, <<"Armed", "Triggered">>, <<"Triggered", "Idle">>,
     <<"Armed", "Idle">>}

C5_LegalTransitionsOnly ==
    [][/\ SessionState' # SessionState => <<SessionState, SessionState'>> \in LegalTransitions
       /\ narms' # narms => SessionState = "Idle"]_vars

\* C6 (as stated): while the pause flag is set the position does not change.
C6_FrozenWhilePauseFlagSet ==
    [][\A r \in RunIds :
          (Started(r) /\ threads[r].paused /\ threads'[r].paused)
              => threads'[r].current_frame = threads[r].current_frame]_vars

\* C6 (amended): the position never decreases within a run, changes only in
\* the tail of an iteration (by one frame), and does not change while the loop
\* is parked on the pause condition, when the pause flag is toggled, or on the
\* way from the pause gate to the next read.
C6_FrozenWhileParked ==
    [][\A r \in RunIds :
          Started(r) =>
             /\ threads'[r].current_frame >= threads[r].current_frame
             /\ threads'[r].current_frame <= threads[r].current_frame + 1
             /\ threads[r].pc \in {"start", "gate", "parked", "read", "done"}
                   => threads'[r].current_frame = threads[r].current_frame
             /\ threads'[r].paused # threads[r].paused
                   => threads'[r].current_frame = threads[r].current_frame]_vars

C6_Witness ==
    \E r \in RunIds :
        /\ threads[r].pc = "parked"
        /\ threads[r].paused
        /\ threads[r].current_frame >= 1

\* C7: after stop_video ended a session in which nothing had triggered, and
\* until the next arm, the session is Idle, its elapsed time is 0 and the
\* stopped session has no alert record.
C7_StopLeavesZero ==
    stopped # 0 =>
        /\ SessionState = "Idle"
        /\ current_time_sec = 0
        /\ Rows(stopped) = {}

\* C8: the fallback signal fires in the first iteration whose elapsed time is
\* equal to or greater than the threshold: a run never fires at another
\* frame, and never gets past that iteration with its latch still clear.
C8_InclusiveThreshold ==
    \A r \in RunIds :
        Started(r) =>
           /\ \A i \in 1..Len(threads[r].fired) :
                 threads[r].fired[i] = first_crossing(threads[r])
           /\ threads[r].pc = "fire" => threads[r].current_frame = first_crossing(threads[r])
           /\ threads[r].current_frame > first_crossing(threads[r])
                 => threads[r].fall_triggered

C8_Witness ==
    \E r \in RunIds :
        /\ threads[r].fall_time_sec >= 1
        /\ threads[r].fired = <<threads[r].fall_time_sec * Fps>>

\* the run has done the threshold check of its crossing iteration
Crossed(r) ==
    \/ threads[r].pc = "fire"
    \/ threads[r].current_frame > first_crossing(threads[r])

\* C9 (as stated): every run whose elapsed time reached the threshold has
\* emitted the threshold signal exactly once.
C9_ExactlyOncePerCrossing ==
    \A r \in RunIds :
        (Started(r) /\ Crossed(r) /\ threads[r].pc # "fire") => Len(threads[r].fired) = 1

\* C9 (amended): a run emits the threshold signal at most once, and exactly
\* once when it reaches the threshold with its latch not yet set by
\* mark_fall_triggered.
C9_AtMostOncePerRun ==
    \A r \in RunIds :
        Started(r) =>
           /\ Len(threads[r].fired) <= 1
           /\ threads[r].fired # <<>> => threads[r].fall_triggered
           /\ (Crossed(r) /\ threads[r].pc # "fire" /\ ~threads[r].fall_triggered)
                 => Len(threads[r].fired) = 1

C9_Witness ==
    \E r \in RunIds :
        /\ Len(threads[r].fired) = 1
        /\ threads[r].current_frame > threads[r].fired[1] + 1
        /\ threads[r].pc = "parked"

\* C10: Scenario A: the session triggers with source fallback_timer when the
\* elapsed time is 10 s, the clock fires at frame 10 only, and nothing
\* triggers while the clock is before frame 10.
C10_ScenarioA ==
    /\ accepted.src # "none"
          => accepted.src = "fallback_timer" /\ accepted.sec = ScenarioThreshold * Fps
    /\ \A i \in 1..Len(sink) :
          /\ sink[i].source = "fallback_timer"
          /\ sink[i].video_sec = ScenarioThreshold * Fps
    /\ \A i \in 1..Len(threads[1].fired) : threads[1].fired[i] = ScenarioThreshold * Fps
    /\ fall_triggered
          => /\ threads[1].current_frame >= ScenarioThreshold * Fps
             /\ current_time_sec >= ScenarioThreshold * Fps

C10_Witness ==
    /\ accepted.src = "fallback_timer"
    /\ accepted.sec = ScenarioThreshold * Fps
    /\ Len(sink) = 1

\* the live-feed message has been handed to on_mmwave_message
MessageDelivered ==
    /\ msgs_sent >= 1
    /\ \A i \in 1..Len(queue) : queue[i].kind # "mmwave"

\* C11: Scenario B: the fall message that arrives at elapsed time 5 s while the
\* session is Armed triggers it with source mmwave at 5 s; the clock, passing
\* its 30 s threshold later, emits no threshold signal, and the sink never has
\* a second row.
C11_ScenarioB ==
    msgs_sent >= 1 =>
       /\ Len(sink) <= 1
       /\ \A i \in 1..Len(sink) :
             /\ sink[i].source = "mmwave"
             /\ sink[i].video_sec = ScenarioBMessageAt * Fps
             /\ sink[i].state = "Armed"
       /\ threads[1].fired = <<>>
       /\ ~MessageDelivered => ~fall_triggered /\ sink = <<>>
       /\ (MessageDelivered /\ session # 0)
             => /\ fall_triggered
                /\ accepted.src = "mmwave"
                /\ accepted.sec = ScenarioBMessageAt * Fps
                /\ signals = <<"mmwave">>

C11_Witness ==
    /\ MessageDelivered
    /\ fall_triggered
    /\ Len(sink) = 1
    /\ sink[1].source = "mmwave"
    /\ threads[1].current_frame > ScenarioBThreshold * Fps

\* "fall" in s, in any mix of upper and lower case
HasFallAnyCase(s) ==
    \E i \in 1..(Len(s) - 3) :
        /\ s[i] \in {"f", "F"}
        /\ s[i + 1] \in {"a", "A"}
        /\ s[i + 2] \in {"l", "L"}
        /\ s[i + 3] \in {"l", "L"}

\* the documented predicate, rule by rule in its order
DocumentedFall(p) ==
    IF p.fall_detected \in {IntV(1), BoolV(TRUE), StrV(<<"1">>),
                            StrV(<<"t","r","u","e">>), StrV(<<"T","R","U","E">>)}
    THEN TRUE
    ELSE IF \E k \in {"event", "type", "status", "alarm"} :
               p[k].t = "str" /\ HasFallAnyCase(p[k].v)
    THEN TRUE
    ELSE IF /\ p.classification.t = "str"
            /\ Len(p.classification.v) = 4
            /\ HasFallAnyCase(p.classification.v)
    THEN TRUE
    ELSE FALSE

\* a live-feed message is handed to on_mmwave_message while the session is Armed
ArmedDelivery ==
    /\ queue # <<>>
    /\ Head(queue).kind = "mmwave"
    /\ queue' = Tail(queue)
    /\ SessionState = "Armed"

\* C12: a message delivered while the session is Armed triggers it exactly when
\* the documented predicate says its payload is a fall; the five literal
\* payloads of the specification are classified as it lists them.
C12_ClassifierAgrees ==
    [][ArmedDelivery =>
          /\ fall_triggered' <=> DocumentedFall(Head(queue).payload)
          /\ Head(queue).payload \in {PayloadFall, PayloadStatusFall,
                                      PayloadClassificationFall} => fall_triggered'
          /\ Head(queue).payload \in {PayloadNormal, EmptyPayload} => ~fall_triggered']_vars

C12_Witness ==
    /\ fall_triggered
    /\ classified = 1
    /\ Len(sink) = 1
    /\ sink[1].raw = PayloadStatusFall

\* a live-feed message is handed to on_mmwave_message in this step
MessageDelivery ==
    /\ queue # <<>>
    /\ Head(queue).kind = "mmwave"
    /\ queue' = Tail(queue)

\* C13 (as stated): every message delivered after the first arm is classified,
\* whatever the session state.
C13_EveryMessageClassified ==
    [][(MessageDelivery /\ has_monitoring_armed) => classified' = classified + 1]_vars

\* C13 (amended): a delivered message is classified exactly when
\* monitoring_armed is set (Armed or Triggered); its verdict depends on the
\* payload alone; the signal is accepted exactly when the verdict is fall and
\* the session is Armed; a message delivered otherwise changes nothing.
C13_ClassifiedWhileArmedFlagSet ==
    [][MessageDelivery =>
          /\ classified' = classified
                + (IF has_monitoring_armed /\ monitoring_armed THEN 1 ELSE 0)
          /\ (fall_triggered' /\ ~fall_triggered)
                <=> (SessionState = "Armed" /\ payload_is_fall(Head(queue).payload))
          /\ (signals' # signals \/ sink' # sink)
                => (has_monitoring_armed /\ monitoring_armed
                    /\ payload_is_fall(Head(queue).payload))
          /\ ~(has_monitoring_armed /\ monitoring_armed)
                => UNCHANGED <<fall_triggered, threads, min_spin, sec_spin, sink, history>>]_vars

C13_Witness ==
    /\ classified = 1
    /\ fall_triggered
    /\ accepted.src = "fallback_timer"
    /\ signals = <<"fallback_timer", "mmwave">>

\* C14: the delivery of a live-feed message whose payload is not a fall changes
\* neither the session state, the accepted signal, the clocks' latches, the
\* threshold spin boxes nor the sink, in any session state.
C14_NonFallNeverTriggers ==
    [][(MessageDelivery /\ ~DocumentedFall(Head(queue).payload))
          => /\ SessionState' = SessionState
             /\ UNCHANGED <<fall_triggered, monitoring_armed, threads, min_spin, sec_spin,
                            sink, history>>]_vars

\* a not-fall message has been classified in an Armed session
C14_Witness ==
    /\ SessionState = "Armed"
    /\ session # 0
    /\ MessageDelivered
    /\ classified = 1
    /\ signals = <<>>
    /\ sink = <<>>

\* C15: from the moment the sink fails the insert of the accepted signal until
\* the session ends, the session is Triggered and has no alert record, whatever
\* signals follow.
C15_FailureLeavesTriggered ==
    (session # 0 /\ accepted.src # "none" /\ ~accepted.ok) =>
        /\ SessionState = "Triggered"
        /\ Rows(session) = {}

C15_Witness ==
    /\ session # 0
    /\ accepted.src = "mmwave"
    /\ ~accepted.ok
    /\ signals = <<"mmwave", "fallback_timer">>
    /\ Rows(session) = {}
    /\ fall_triggered

\* C16: stop() wakes a loop parked on the pause condition; no loop is parked
\* while its stop flag is set; a loop at the pause check with the stop flag set
\* reads no frame, emits nothing and can only leave; and it does leave.
C16_StopWakesParkedLoop ==
    /\ [](\A r \in RunIds : threads[r].stopf => threads[r].pc # "parked")
    /\ [][\A r \in RunIds :
             /\ (threads[r].pc = "parked" /\ ~threads[r].stopf /\ threads'[r].stopf)
                   => threads'[r].pc = "gate"
             /\ (threads[r].stopf /\ threads[r].pc \in {"gate", "parked"})
                   => /\ threads'[r].pc \in {"gate", "done"}
                      /\ threads'[r].current_frame = threads[r].current_frame
                      /\ threads'[r].fired = threads[r].fired]_vars
    /\ \A r \in RunIds :
          (threads[r].stopf /\ threads[r].pc \in {"gate", "parked"}) ~> (threads[r].pc = "done")

\* stop() found the loop parked after a frame and has woken it
C16_Witness ==
    /\ threads[1].woke
    /\ threads[1].stopf
    /\ threads[1].pc = "gate"
    /\ threads[1].current_frame >= 1

\* C18: paused changes only by toggle_pause and stop(); the stop flag, once
\* set, stays set, and a loop whose stop flag is set never parks, never goes
\* from the pause check to a read, and never leaves "done", whatever
\* toggle_pause() calls follow.
C18_StoppedIsTerminal ==
    [][\A r \in RunIds :
          /\ (Started(r) /\ threads'[r].paused # threads[r].paused)
                => \/ threads'[r] = toggle_pause(threads[r])
                   \/ threads'[r] = stop(threads[r])
          /\ threads[r].stopf
                => /\ threads'[r].stopf
                   /\ threads'[r].pc # "parked"
                   /\ threads[r].pc = "gate" => threads'[r].pc \in {"gate", "done"}
                   /\ threads[r].pc = "done" => threads'[r].pc = "done"]_vars

\* toggle_pause() was called after stop(), with the loop not yet out
C18_Witness ==
    \E r \in RunIds :
        /\ threads[r].stopf
        /\ threads[r].paused
        /\ threads[r].pc = "gate"

\* C17: whenever the control thread is inside a join (the wait of stop_video
\* or of closeEvent), the join can return at once, whatever the clock thread
\* does or fails to do.
C17_JoinsAreBounded ==
    /\ ctl_pc = "stop_wait" => ENABLED stop_video_return
    /\ ctl_pc = "close_wait" => ENABLED closeEvent_return

\* this step creates and starts clock run r
RunCreated(r) == threads[r].pc = "none" /\ threads'[r].pc = "start"

\* C19: every clock run is created with its threshold latch unset and nothing
\* emitted, whatever the runs before it did.
C19_FreshLatchPerRun ==
    [][\A r \in RunIds :
          RunCreated(r) => (~threads'[r].fall_triggered /\ threads'[r].fired = <<>>)]_vars

\* C20 (as stated): a new run starts at the position the clock the control
\* thread holds has reached (at zero when there has been no clock).
C20_StartsAtCarriedPosition ==
    [][\A r \in RunIds :
          RunCreated(r) =>
             threads'[r].start_frame =
                IF video_thread # 0 THEN threads[video_thread].current_frame ELSE 0]_vars

\* C20 (amended): the saved position is 0 whenever the control thread is in
\* its event loop, and every new run starts at frame 0.
C20_StartsAtZero ==
    /\ [](ctl_pc = "idle" => last_frame = 0)
    /\ [][\A r \in RunIds :
             RunCreated(r) => (threads'[r].start_frame = 0 /\ threads'[r].current_frame = 0)]_vars

\* a second run has started after the first was stopped past its first frame
C20_Witness ==
    /\ threads[1].stopf
    /\ threads[1].current_frame >= 1
    /\ threads[2].pc = "gate"
    /\ threads[2].start_frame = 0

\* the clock the control thread holds is running
ClockActive == video_thread # 0 /\ isRunning(video_thread)

\* C21: a command in an illegal state is a no-op: the pause flag of a clock
\* changes (outside stop_video and closeEvent) only for the running clock the
\* control thread holds; from Idle, a step that is neither an arm nor the
\* delivery of a signal leaves the session Idle and the sink as it is; and no
\* session is armed, and no clock run created, while a clock run is active.
C21_IllegalCommandsAreNoOps ==
    [][/\ \A r \in RunIds :
             (ctl_pc' = ctl_pc /\ threads'[r].paused # threads[r].paused)
                => (video_thread = r /\ isRunning(r))
       /\ (SessionState = "Idle" /\ narms' = narms /\ ~SignalDelivery)
             => (SessionState' = "Idle" /\ sink' = sink)
       /\ ClockActive
             => /\ narms' = narms
                /\ \A r \in RunIds : ~RunCreated(r)]_vars

\* the feed listener takes a message in this step
ListenerStep == msgs_sent' = msgs_sent + 1

\* what the listener has just posted
Posted == queue'[Len(queue')]

\* a queued raw-text message or parse error report is handed to its slot
MalformedDelivery ==
    /\ queue # <<>>
    /\ queue' = Tail(queue)
    /\ \/ Head(queue).kind = "status"
       \/ Head(queue).kind = "mmwave" /\ Head(queue).payload.raw.t # "absent"

\* C22 (as stated): every text the listener takes is emitted as a message,
\* wrapped as raw text when it is not a JSON object, and a wrapped message is
\* not a fall.
C22_MalformedIsWrapped ==
    [][ListenerStep =>
          /\ Len(queue') = Len(queue) + 1
          /\ Posted.kind = "mmwave"
          /\ Posted.payload.raw.t # "absent" => ~payload_is_fall(Posted.payload)]_vars

\* C22 (amended): the listener emits one message or one parse error report for
\* every text; a wrapped message holds a text that does not start with a
\* brace, under the key "raw" alone, and is not a fall; handing a wrapped
\* message or a parse error report to its slot changes neither the session,
\* the clocks, the spin boxes nor the sink; and the listener takes the next
\* message whatever it has taken before.
C22_MalformedNeverTriggers ==
    /\ [][ListenerStep =>
             /\ Len(queue') = Len(queue) + 1
             /\ Posted.kind \in {"mmwave", "status"}
             /\ (Posted.kind = "mmwave" /\ Posted.payload.raw.t # "absent")
                   => /\ ~startswith_brace(Posted.payload.raw.v)
                      /\ Posted.payload = WrapRaw(Posted.payload.raw.v)
                      /\ ~payload_is_fall(Posted.payload)]_vars
    /\ [][MalformedDelivery =>
             /\ UNCHANGED <<fall_triggered, monitoring_armed, threads, min_spin, sec_spin,
                            sink, history, classified>>
                \/ (classified' = classified + 1
                    /\ UNCHANGED <<fall_triggered, monitoring_armed, threads, min_spin,
                                   sec_spin, sink, history>>)
             /\ Head(queue).kind = "status" => mmwave_status' = "parse error"]_vars
    /\ []((msgs_sent >= 1 /\ mmwave_checkbox /\ ctl_pc # "closed" /\ CanPost)
             => ENABLED on_message(dumps(PayloadFall)))

\* a parse error was reported, and the fall message that followed it was accepted
C22_Witness ==
    /\ mmwave_status = "parse error"
    /\ msgs_sent = MaxMalformedMsgs
    /\ queue = <<>>
    /\ fall_triggered
    /\ Len(sink) = 1
    /\ sink[1].source = "mmwave"

\* C23: no handler ends in an error that nothing catches, in any reachable
\* state, the states before the first arm included.
C23_NoUnhandledError == ~unhandled

\* clock run r posts a notification in this step
Posts(r) == Len(queue') = Len(queue) + 1 /\ Posted.run = r

C25_FreeRunningTimer ==
    (SessionState = "Armed" /\ video_thread = 0 /\ msgs_sent = 0)
        ~> \/ current_time_sec > 0
           \/ fall_triggered
           \/ msgs_sent > 0
           \/ SessionState = "Idle"

\* C25 (amended): with the live feed in use and no video selected, arming
\* creates no clock: no clock thread exists, the elapsed time stays 0, the
\* fallback signal is never emitted or accepted, and the session leaves Armed
\* only by a live-feed fall message, by stop_video or by a new arm.
C25_NoClockWithoutSource ==
    /\ [](/\ video_thread = 0
          /\ \A r \in RunIds : threads[r] = NoThread
          /\ current_time_sec = 0
          /\ accepted.src \in {"none", "mmwave"}
          /\ \A i \in 1..Len(sink) : sink[i].source = "mmwave"
          /\ \A i \in 1..Len(queue) : queue[i].kind = "mmwave")
    /\ [][(SessionState = "Armed" /\ SessionState' # "Armed")
             => \/ MessageDelivery /\ payload_is_fall(Head(queue).payload)
                \/ stopped' = session]_vars

\* armed without a video; a message that is not a fall has been classified and
\* nothing has moved
C25_Witness ==
    /\ SessionState = "Armed"
    /\ session # 0
    /\ video_thread = 0
    /\ classified >= 1
    /\ queue = <<>>
    /\ current_time_sec = 0

\* what the methods that take the run's mutex can make of clock t
LockedWrites(t) == {stop(t), toggle_pause(t), mark_fall_triggered(t)}

\* C26: the triggered latch, the pause and stop flags and the position of a
\* started run change only by a method that holds the run's mutex, and while
\* the clock thread is between its read of the latch and its write of it, the
\* control thread does not write the latch.
C26_SharedFieldsUnderMutex ==
    [][\A r \in RunIds :
          Started(r) =>
             /\ (\/ threads'[r].fall_triggered # threads[r].fall_triggered
                 \/ threads'[r].paused # threads[r].paused
                 \/ threads'[r].stopf # threads[r].stopf
                 \/ threads'[r].current_frame # threads[r].current_frame)
                   => threads'[r] \in LockedWrites(threads[r])
             /\ (threads[r].pc = "fire" /\ threads'[r].pc = "fire")
                   => threads'[r].fall_triggered = threads[r].fall_triggered]_vars

\* C27: every alert record holds its signal's source and payload and the
\* elapsed time at acceptance: a live-feed record holds a fall payload, and a
\* fallback-timer record holds the threshold of the run that emitted the signal
\* and, as its elapsed time, the time of the iteration that crossed that
\* threshold.
C27_RecordCarriesAcceptance ==
    \A i \in 1..Len(sink) :
        /\ sink[i].source \in {"mmwave", "fallback_timer"}
        /\ sink[i].source = "mmwave" => payload_is_fall(sink[i].raw)
        /\ sink[i].source = "fallback_timer"
              => /\ sink[i].video_sec >= sink[i].raw.fall_at_sec * Fps
                 /\ sink[i].video_sec = sink[i].raw.fall_at_sec * Fps

\* the finished notification of a clock run other than the one the control
\* thread holds is handed to on_video_finished while a session is armed
StaleFinishedDelivery ==
    /\ queue # <<>>
    /\ queue' = Tail(queue)
    /\ Head(queue).kind = "finished"
    /\ session # 0
    /\ video_thread # 0
    /\ Head(queue).run # video_thread

\* C28: the finished notification of an earlier clock run, delivered after a
\* new session has been armed, leaves the new session armed, its triggered
\* flag as it is, and the control thread's reference to the new clock run.
C28_StaleFinishedIgnored ==
    [][StaleFinishedDelivery
          => UNCHANGED <<monitoring_armed, fall_triggered, video_thread, session>>]_vars

\* C29: a fallback-timer signal accepted while a session is armed was emitted
\* by the clock run created for that session, which is the run the control
\* thread holds, and carries that run's threshold.
C29_NoStaleTimerTrigger ==
    [][(/\ queue # <<>>
        /\ queue' = Tail(queue)
        /\ Head(queue).kind = "fall_by_timer"
        /\ session # 0
        /\ ~fall_triggered
        /\ fall_triggered')
          => /\ threads[Head(queue).run].session = session
             /\ Head(queue).run = video_thread
             /\ Head(queue).val = threads[video_thread].fall_time_sec]_vars

\* C30: at most one clock thread is running at any time.
C30_AtMostOneClockRunning ==
    Cardinality({r \in RunIds : isRunning(r)}) <= 1

\* C31: a clock run posts its finished notification in the step in which it
\* ends, on every way out of run(), and in no other step; once it has ended it
\* posts nothing and stays ended.
C31_FinishedExactlyOnce ==
    [][\A r \in RunIds :
          /\ (threads[r].pc # "done" /\ threads'[r].pc = "done")
                => (Posts(r) /\ Posted.kind = "finished")
          /\ (Posts(r) /\ Posted.kind = "finished")
                => (threads[r].pc # "done" /\ threads'[r].pc = "done")
          /\ threads[r].pc = "done" => (~Posts(r) /\ threads'[r].pc = "done")]_vars

\* a live-feed fall message is handed to on_mmwave_message while the session
\* is Armed and the clock the control thread holds is parked on its pause
\* condition
PausedFallDelivery ==
    /\ ArmedDelivery
    /\ payload_is_fall(Head(queue).payload)
    /\ video_thread # 0
    /\ threads[video_thread].pc = "parked"

C33_AtMostOneListener ==
    /\ Cardinality({l \in ListenerIds : listener_isRunning(l)}) <= 1
    /\ \A l \in ListenerIds : listener_isRunning(l) => l = mmwave_thread

\* the three rules of the classifier, each on its own
RuleFallDetected(p) ==
    p.fall_detected \in {IntV(1), BoolV(TRUE), StrV(<<"1">>),
                         StrV(<<"t","r","u","e">>), StrV(<<"T","R","U","E">>)}

RuleTextField(p) ==
    \E k \in {"event", "type", "status", "alarm"} :
        p[k].t = "str" /\ HasFallAnyCase(p[k].v)

RuleClassification(p) ==
    /\ p.classification.t = "str"
    /\ Len(p.classification.v) = 4
    /\ HasFallAnyCase(p.classification.v)

ExplicitNegative(p) == p.fall_detected \in {IntV(0), BoolV(FALSE)}

PayloadNoFall ==
    [EmptyPayload EXCEPT !.fall_detected = IntV(0),
                         !.status = StrV(<<"n","o","_","f","a","l","l">>)]

\* C34: the verdict on a message delivered to an Armed session is the
\* disjunction of the three rules, whichever rule is looked at first; a payload
\* whose fall_detected is 0 or false is still a fall when one of
\* event/type/status/alarm contains "fall" (as "no_fall" does) or
\* classification equals "fall".
C34_PlainDisjunction ==
    [][ArmedDelivery =>
          LET p == Head(queue).payload
          IN  /\ fall_triggered' <=>
                    (RuleClassification(p) \/ RuleTextField(p) \/ RuleFallDetected(p))
              /\ (ExplicitNegative(p) /\ (RuleTextField(p) \/ RuleClassification(p)))
                    => fall_triggered'
              /\ p = PayloadNoFall => fall_triggered']_vars

C34_Witness ==
    /\ fall_triggered
    /\ classified = 1
    /\ Len(sink) = 1
    /\ sink[1].raw = PayloadNoFall

\* the event-time signal is handed to on_event_time_reached in this step
EventTimeDelivery ==
    /\ ctl_pc = "idle"
    /\ queue # <<>>
    /\ Head(queue).kind = "fall_time_reached"
    /\ queue' = Tail(queue)

\* what the broker took in this step
NewlyPublished == SubSeq(published', Len(published) + 1, Len(published'))

TopicsOf(msgs) == {msgs[i].topic : i \in 1..Len(msgs)}

C36_FailureMeansNothingPublished ==
    [][EventTimeDelivery =>
          /\ last_publish'.ok => /\ last_publish'.connected
                                 /\ TopicsOf(NewlyPublished) = {"hitam", "rsi"}
          /\ ~last_publish'.connected => NewlyPublished = <<>>
          /\ ~last_publish'.ok => NewlyPublished = <<>>]_vars

\* C36 (amended): publish_alerts reports success exactly when the broker is
\* connected and both publishes succeeded; when not connected it publishes
\* nothing; when it reports failure at least one topic has not received the
\* message, and the other may have.
C36_SuccessIffBothPublished ==
    [][EventTimeDelivery =>
          /\ last_publish'.ok <=> /\ last_publish'.connected
                                  /\ Len(NewlyPublished) = 2
                                  /\ TopicsOf(NewlyPublished) = {"hitam", "rsi"}
          /\ ~last_publish'.connected => NewlyPublished = <<>>
          /\ ~last_publish'.ok => Len(NewlyPublished) <= 1
          /\ \A t \in {"hitam", "rsi"} :
                ENABLED (/\ on_event_time_reached
                         /\ ~last_publish'.ok
                         /\ TopicsOf(NewlyPublished) = {t})]_vars

C36_Witness ==
    /\ last_publish.called
    /\ last_publish.connected
    /\ ~last_publish.ok
    /\ Len(published) = 1
    /\ published[1].topic = "hitam"

====
